---- MODULE Spec2Model ----
(***************************************************************************)
(* Cradle API client (cradle-client-ts/cradle-api-client.ts).              *)
(*                                                                         *)
(* One CradleApiClient, its configuration fixed by the constructor, on     *)
(* which a caller invokes the public methods one after the other.  Every   *)
(* method builds a path (and a body), hands it to request, which issues    *)
(* one HTTP call on the axios instance and maps the outcome of that call   *)
(* to the value the returned promise settles with.  SpecConc has several   *)
(* invocations in progress at once; SpecMutation follows a mutation up to  *)
(* the caller's use of MutationResponseHelpers on the returned data.       *)
(*                                                                         *)
(* JavaScript values.  A primitive is a record with a field prim; an       *)
(* object is a record whose fields are its own keys.  A string is a        *)
(* sequence of tokens: a token is either one reserved character (" ",      *)
(* "&", "=", "/", "?", "#", "+", "%", ":") or a run of other characters,    *)
(* which no operation of the client looks into; a text that is never URL-  *)
(* encoded (an error message, a response body) is one token.  Strings are  *)
(* well-formed Unicode (no lone surrogates).                               *)
(***************************************************************************)
EXTENDS Integers, Sequences, FiniteSets, TLC

VARIABLES
    cradleConfig, \* the CradleApiConfig the client was constructed with
    client,       \* this.axiosInstance: defaults set by the constructor
    call,         \* the method invocation in progress, if any
    others,       \* the other invocations in progress on the same client
    invocations,  \* number of public method invocations started so far
    requests      \* number of HTTP requests put on the wire so far

vars == <<cradleConfig, client, call, others, invocations, requests>>

\* Number of invocations a behaviour of the model makes.
MaxCalls == 2

\* Number of invocations that can be in progress beside the one in call.
MaxOthers == 1

-----------------------------------------------------------------------------
(* JavaScript values                                                       *)

Undefined == [prim |-> "undefined"]
Null      == [prim |-> "null"]
Str(s)    == [prim |-> "string", v |-> s]
Num(n)    == [prim |-> "number", v |-> n]

IsPrim(v)   == "prim" \in DOMAIN v
IsObject(v) == ~IsPrim(v)
IsString(v) == IsPrim(v) /\ v.prim = "string"

\* ToBoolean: undefined, null, "" and 0 are falsy; every object is truthy.
Truthy(v) ==
    IF IsObject(v) THEN TRUE
    ELSE CASE v.prim = "undefined" -> FALSE
           [] v.prim = "null"      -> FALSE
           [] v.prim = "string"    -> v.v # <<>>
           [] v.prim = "number"    -> v.v # 0
           [] OTHER                -> TRUE

\* a || b
JsOr(a, b) == IF Truthy(a) THEN a ELSE b

\* interface ApiResponse<T>
ApiResponse(success, data, error) ==
    [success |-> success, data |-> data, error |-> error]

\* A value has the shape of ApiResponse when it is an object with the three keys.
IsEnvelopeShaped(v) ==
    IsObject(v) /\ {"success", "data", "error"} \subseteq DOMAIN v

\* interface HealthResponse
HealthResponse(status, timestamp) == [status |-> status, timestamp |-> timestamp]

-----------------------------------------------------------------------------
(* Constructor                                                             *)

DefaultTimeout == 30000

DefaultBaseUrl == Str(<<"http", ":", "/", "/", "localhost", ":", "3000">>)

\* interface CradleApiConfig: the configurations the model constructs clients from.
CradleApiConfig ==
    [baseUrl : {Undefined, Str(<<>>), Str(<<"https", ":", "/", "/", "api.cradle.example.com">>)},
     apiKey  : {Str(<<"key-1">>), Str(<<"key-2">>)},
     timeout : {Undefined, Num(0), Num(60000)}]

\* Variant: config.timeout ?? 30000, which keeps a timeout of 0 (no timeout).
constructorTimeout_nullish(config) ==
    IF config.timeout \in {Undefined, Null} THEN Num(DefaultTimeout) ELSE config.timeout

\* const timeout = config.timeout || 30000
constructorTimeout(config) == JsOr(config.timeout, Num(DefaultTimeout))

\* const baseUrl = config.baseUrl || 'http://localhost:3000'
constructorBaseUrl(config) == JsOr(config.baseUrl, DefaultBaseUrl)

\* axios.create({baseURL, timeout, headers}): the defaults of the instance.
constructor(config) ==
    [baseURL |-> constructorBaseUrl(config).v,
     timeout |-> constructorTimeout(config).v,
     headers |-> [Authorization |-> Str(<<"Bearer", " ">> \o config.apiKey.v)]]

-----------------------------------------------------------------------------
(* URL encoding                                                            *)

\* Percent-encoding of one token (UTF-8 byte of an ASCII reserved character).
PercentEncode(t) ==
    CASE t = " " -> "%20"
      [] t = "&" -> "%26"
      [] t = "=" -> "%3D"
      [] t = "/" -> "%2F"
      [] t = "?" -> "%3F"
      [] t = "#" -> "%23"
      [] t = "+" -> "%2B"
      [] t = "%" -> "%25"
      [] t = ":" -> "%3A"
      [] OTHER   -> t

\* encodeURIComponent(s): every reserved character of the alphabet is escaped.
RECURSIVE encodeURIComponent(_)
encodeURIComponent(s) ==
    IF s = <<>> THEN <<>>
    ELSE <<PercentEncode(Head(s))>> \o encodeURIComponent(Tail(s))

\* application/x-www-form-urlencoded serializer of URLSearchParams: as
\* percent-encoding, but a space becomes "+".
RECURSIVE FormEncode(_)
FormEncode(s) ==
    IF s = <<>> THEN <<>>
    ELSE <<IF Head(s) = " " THEN "+" ELSE PercentEncode(Head(s))>> \o FormEncode(Tail(s))

\* new URLSearchParams(): an empty list of name/value pairs.
URLSearchParams == <<>>

\* params.append(name, value)
append(params, name, value) == Append(params, <<name, value>>)

\* params.toString(): name=value pairs joined by "&", both form-encoded.
RECURSIVE toString(_)
toString(params) ==
    IF params = <<>> THEN <<>>
    ELSE LET pair == FormEncode(Head(params)[1]) \o <<"=">> \o FormEncode(Head(params)[2])
         IN  IF Len(params) = 1 THEN pair
             ELSE pair \o <<"&">> \o toString(Tail(params))

\* filters?.field: undefined when filters is undefined or lacks the field.
OptField(filters, field) ==
    IF IsPrim(filters) THEN Undefined
    ELSE IF field \in DOMAIN filters THEN filters[field] ELSE Undefined

\* Variant: if (filters?.field !== undefined) params.append(name, filters.field)
appendIf_defined(params, filters, field, name) ==
    IF OptField(filters, field) # Undefined
    THEN append(params, <<name>>, OptField(filters, field).v)
    ELSE params

\* if (filters?.field) params.append(name, filters.field)
appendIf(params, filters, field, name) ==
    IF Truthy(OptField(filters, field))
    THEN append(params, <<name>>, OptField(filters, field).v)
    ELSE params

-----------------------------------------------------------------------------
(* request: the part up to the await (cradle-api-client.ts 667-688)        *)

\* The HTTP request the axios instance sends for the AxiosRequestConfig that
\* request builds: instance defaults merged with {method, url, data} and, when
\* requiresAuth is false, with headers {Authorization: ''}.
request(c, method, path, body, requiresAuth) ==
    <<[method        |-> method,
       url           |-> c.baseURL \o path,
       data          |-> body,
       timeout       |-> c.timeout,
       Authorization |-> IF requiresAuth THEN c.headers.Authorization ELSE Str(<<>>)]>>

-----------------------------------------------------------------------------
(* Outcomes of an HTTP call and what request and health make of them       *)

\* Errors: AxiosError (axios.isAxiosError), any other Error, a non-Error value.
AxiosError(message, response) ==
    [type |-> "AxiosError", message |-> message, response |-> response]
PlainError(message) ==
    [type |-> "Error", message |-> message, response |-> Undefined]
ThrownValue ==
    [type |-> "value", message |-> Undefined, response |-> Undefined]

isAxiosError(error)     == error.type = "AxiosError"
instanceofError(error)  == error.type \in {"AxiosError", "Error"}

\* What `await axiosInstance.request(config)` does.
Fulfilled(status, data) ==
    [kind |-> "fulfilled", response |-> [status |-> status, data |-> data]]
Thrown(error) ==
    [kind |-> "rejected", error |-> error]

\* How the promise of a method settles.
Resolved(value) == [settle |-> "resolved", value |-> value]
Rejected(error) == [settle |-> "rejected", value |-> error]

\* error.response?.data
responseData(error) ==
    IF IsPrim(error.response) THEN Undefined ELSE error.response.data

\* Variant: the catch block handles Axios errors only and rethrows the rest.
requestCatch_rethrow(error) ==
    IF isAxiosError(error)
    THEN IF Truthy(responseData(error))
         THEN Resolved(responseData(error))
         ELSE Resolved(ApiResponse(FALSE, Null,
                                   JsOr(error.message, Str(<<"Request failed">>))))
    ELSE Rejected(error)

\* Variant: the last fallback envelope is built with success: true.
requestCatch_successTrue(error) ==
    IF isAxiosError(error)
    THEN IF Truthy(responseData(error))
         THEN Resolved(responseData(error))
         ELSE Resolved(ApiResponse(FALSE, Null,
                                   JsOr(error.message, Str(<<"Request failed">>))))
    ELSE IF instanceofError(error)
         THEN Resolved(ApiResponse(FALSE, Null, error.message))
         ELSE Resolved(ApiResponse(TRUE, Null, Str(<<"Unknown error occurred">>)))

\* Variant: the catch block never looks at error.response.data.
requestCatch_ignoreBody(error) ==
    IF isAxiosError(error)
    THEN Resolved(ApiResponse(FALSE, Null,
                              JsOr(error.message, Str(<<"Request failed">>))))
    ELSE IF instanceofError(error)
         THEN Resolved(ApiResponse(FALSE, Null, error.message))
         ELSE Resolved(ApiResponse(FALSE, Null, Str(<<"Unknown error occurred">>)))

\* Variant: the body of the response is returned unless it is null or
\* undefined (error.response?.data != null).
requestCatch_nullishBody(error) ==
    IF isAxiosError(error)
    THEN IF responseData(error) \notin {Null, Undefined}
         THEN Resolved(responseData(error))
         ELSE Resolved(ApiResponse(FALSE, Null,
                                   JsOr(error.message, Str(<<"Request failed">>))))
    ELSE IF instanceofError(error)
         THEN Resolved(ApiResponse(FALSE, Null, error.message))
         ELSE Resolved(ApiResponse(FALSE, Null, Str(<<"Unknown error occurred">>)))

\* Variant: every branch falls back to 'Request failed' on an empty message.
requestCatch_fallbackEverywhere(error) ==
    IF isAxiosError(error)
    THEN IF Truthy(responseData(error))
         THEN Resolved(responseData(error))
         ELSE Resolved(ApiResponse(FALSE, Null,
                                   JsOr(error.message, Str(<<"Request failed">>))))
    ELSE IF instanceofError(error)
         THEN Resolved(ApiResponse(FALSE, Null,
                                   JsOr(error.message, Str(<<"Request failed">>))))
         ELSE Resolved(ApiResponse(FALSE, Null, Str(<<"Unknown error occurred">>)))

\* request, catch block (cradle-api-client.ts 690-719)
requestCatch(error) ==
    IF isAxiosError(error)
    THEN IF Truthy(responseData(error))
         THEN Resolved(responseData(error))
         ELSE Resolved(ApiResponse(FALSE, Null,
                                   JsOr(error.message, Str(<<"Request failed">>))))
    ELSE IF instanceofError(error)
         THEN Resolved(ApiResponse(FALSE, Null, error.message))
         ELSE Resolved(ApiResponse(FALSE, Null, Str(<<"Unknown error occurred">>)))

\* request, from the await on: return response.data, or the catch block.
requestSettle(outcome) ==
    IF outcome.kind = "fulfilled"
    THEN Resolved(outcome.response.data)
    ELSE requestCatch(outcome.error)

\* Variant: health sends its GET through this.axiosInstance.
health_viaInstance(c) ==
    <<[method        |-> "GET",
       url           |-> c.baseURL \o <<"/", "health">>,
       data          |-> Undefined,
       timeout       |-> c.timeout,
       Authorization |-> c.headers.Authorization]>>

\* health(): a GET on the global axios (no instance defaults: no timeout, no
\* Authorization header) at `${baseURL}/health`.
health(c) ==
    <<[method        |-> "GET",
       url           |-> c.baseURL \o <<"/", "health">>,
       data          |-> Undefined,
       timeout       |-> 0,
       Authorization |-> Undefined]>>

\* Variant: health normalizes a failure into an envelope as request does.
healthSettle_envelope(outcome) ==
    IF outcome.kind = "fulfilled"
    THEN Resolved(outcome.response.data)
    ELSE Resolved(ApiResponse(FALSE, Null, Str(<<"Health check failed">>)))

\* health(), from the await on: response.data, or throw new Error('Health check failed').
healthSettle(outcome) ==
    IF outcome.kind = "fulfilled"
    THEN Resolved(outcome.response.data)
    ELSE Rejected(PlainError(Str(<<"Health check failed">>)))

-----------------------------------------------------------------------------
(* Read methods                                                            *)

\* getAccount: GET /accounts/${id}
getAccount(c, id) ==
    request(c, "GET", <<"/", "accounts", "/">> \o id, Undefined, TRUE)

\* getAccountByLinkedId: GET /accounts/linked/${linkedId}
getAccountByLinkedId(c, linkedId) ==
    request(c, "GET", <<"/", "accounts", "/", "linked", "/">> \o linkedId, Undefined, TRUE)

\* getAccountWallets: GET /accounts/${accountId}/wallets
getAccountWallets(c, accountId) ==
    request(c, "GET", <<"/", "accounts", "/">> \o accountId \o <<"/", "wallets">>, Undefined, TRUE)

\* getWallet: GET /wallets/${id}
getWallet(c, id) ==
    request(c, "GET", <<"/", "wallets", "/">> \o id, Undefined, TRUE)

\* Variant: getWalletByAccountId uses the path the CHANGELOG lists for it.
getWalletByAccountId_walletsAccount(c, accountId) ==
    request(c, "GET", <<"/", "wallets", "/", "account", "/">> \o accountId, Undefined, TRUE)

\* getWalletByAccountId: GET /accounts/${accountId}/wallets
getWalletByAccountId(c, accountId) ==
    request(c, "GET", <<"/", "accounts", "/">> \o accountId \o <<"/", "wallets">>, Undefined, TRUE)

\* getAsset: GET /assets/${id}
getAsset(c, id) ==
    request(c, "GET", <<"/", "assets", "/">> \o id, Undefined, TRUE)

\* getAssets: GET /assets
getAssets(c) ==
    request(c, "GET", <<"/", "assets">>, Undefined, TRUE)

\* getAssetByToken: GET /assets/token/${token}
getAssetByToken(c, token) ==
    request(c, "GET", <<"/", "assets", "/", "token", "/">> \o token, Undefined, TRUE)

\* getAssetByManager: GET /assets/manager/${manager}
getAssetByManager(c, manager) ==
    request(c, "GET", <<"/", "assets", "/", "manager", "/">> \o manager, Undefined, TRUE)

\* getMarket: GET /markets/${id}
getMarket(c, id) ==
    request(c, "GET", <<"/", "markets", "/">> \o id, Undefined, TRUE)

\* getOrder: GET /orders/${id}
getOrder(c, id) ==
    request(c, "GET", <<"/", "orders", "/">> \o id, Undefined, TRUE)

\* getTimeSeriesRecord: GET /time-series/${id}
getTimeSeriesRecord(c, id) ==
    request(c, "GET", <<"/", "time-series", "/">> \o id, Undefined, TRUE)

\* getLendingPool: GET /pools/${id}
getLendingPool(c, id) ==
    request(c, "GET", <<"/", "pools", "/">> \o id, Undefined, TRUE)

\* getLendingTransactions: GET /pools/${poolId}/transactions
getLendingTransactions(c, poolId) ==
    request(c, "GET", <<"/", "pools", "/">> \o poolId \o <<"/", "transactions">>, Undefined, TRUE)

\* getLendingTransactionsByWallet: GET /lending-transactions/wallet/${walletId}
getLendingTransactionsByWallet(c, walletId) ==
    request(c, "GET", <<"/", "lending-transactions", "/", "wallet", "/">> \o walletId, Undefined, TRUE)

\* getLoans: GET /lending-pools/${poolId}/loans
getLoans(c, poolId) ==
    request(c, "GET", <<"/", "lending-pools", "/">> \o poolId \o <<"/", "loans">>, Undefined, TRUE)

\* getLoansByWallet: GET /loans/wallet/${walletId}
getLoansByWallet(c, walletId) ==
    request(c, "GET", <<"/", "loans", "/", "wallet", "/">> \o walletId, Undefined, TRUE)

\* Variant: getLoan sends the id in the body of a POST.
getLoan_post(c, id) ==
    request(c, "POST", <<"/", "loan">>, Str(id), TRUE)

\* getLoan: GET /loan/${id}
getLoan(c, id) ==
    request(c, "GET", <<"/", "loan", "/">> \o id, Undefined, TRUE)

\* getLendingPoolByAddress: GET /pools/address/${address}
getLendingPoolByAddress(c, address) ==
    request(c, "GET", <<"/", "pools", "/", "address", "/">> \o address, Undefined, TRUE)

\* getPoolSnapshot: GET /pools/${poolId}/snapshot
getPoolSnapshot(c, poolId) ==
    request(c, "GET", <<"/", "pools", "/">> \o poolId \o <<"/", "snapshot">>, Undefined, TRUE)

\* getAllLoans: GET /loans
getAllLoans(c) ==
    request(c, "GET", <<"/", "loans">>, Undefined, TRUE)

\* getLoansByPool: GET /loans/pool/${poolId}
getLoansByPool(c, poolId) ==
    request(c, "GET", <<"/", "loans", "/", "pool", "/">> \o poolId, Undefined, TRUE)

\* getLoansByStatus: GET /loans/status/${status}
getLoansByStatus(c, status) ==
    request(c, "GET", <<"/", "loans", "/", "status", "/">> \o status, Undefined, TRUE)

\* getAllRepayments: GET /loan-repayments
getAllRepayments(c) ==
    request(c, "GET", <<"/", "loan-repayments">>, Undefined, TRUE)

\* getRepaymentsByLoan: GET /loan-repayments/loan/${loanId}
getRepaymentsByLoan(c, loanId) ==
    request(c, "GET", <<"/", "loan-repayments", "/", "loan", "/">> \o loanId, Undefined, TRUE)

\* getAllLiquidations: GET /loan-liquidations
getAllLiquidations(c) ==
    request(c, "GET", <<"/", "loan-liquidations">>, Undefined, TRUE)

\* getLiquidationsByLoan: GET /loan-liquidations/loan/${loanId}
getLiquidationsByLoan(c, loanId) ==
    request(c, "GET", <<"/", "loan-liquidations", "/", "loan", "/">> \o loanId, Undefined, TRUE)

\* getPoolInterestRates: GET /pools/${poolId}/interest-rates
getPoolInterestRates(c, poolId) ==
    request(c, "GET", <<"/", "pools", "/">> \o poolId \o <<"/", "interest-rates">>, Undefined, TRUE)

\* getPoolCollateralInfo: GET /pools/${poolId}/collateral-info
getPoolCollateralInfo(c, poolId) ==
    request(c, "GET", <<"/", "pools", "/">> \o poolId \o <<"/", "collateral-info">>, Undefined, TRUE)

\* getPoolStatistics: GET /pools/${poolId}/pool-stats
getPoolStatistics(c, poolId) ==
    request(c, "GET", <<"/", "pools", "/">> \o poolId \o <<"/", "pool-stats">>, Undefined, TRUE)

\* getUserPositions: GET /pools/${poolId}/user-positions/${walletId}
getUserPositions(c, poolId, walletId) ==
    request(c, "GET", <<"/", "pools", "/">> \o poolId \o <<"/", "user-positions", "/">> \o walletId, Undefined, TRUE)

\* getLendingPools(): takes no filters, GET /pools
getLendingPools(c) ==
    request(c, "GET", <<"/", "pools">>, Undefined, TRUE)

\* Variant: the name is put into the path as the other identifiers are.
getLendingPoolByName_verbatim(c, name) ==
    request(c, "GET", <<"/", "pools", "/", "name", "/">> \o name, Undefined, TRUE)

\* getLendingPoolByName: GET /pools/name/${encodeURIComponent(name)}
getLendingPoolByName(c, name) ==
    request(c, "GET", <<"/", "pools", "/", "name", "/">> \o encodeURIComponent(name),
            Undefined, TRUE)

\* path = query ? `${base}?${query}` : base
\* Variant: the path is always built as `${base}?${query}`.
withQuery_always(base, query) == base \o <<"?">> \o query

withQuery(base, query) ==
    IF query # <<>> THEN base \o <<"?">> \o query ELSE base

\* Variant: the pairs are appended while enumerating the filter object's own
\* properties (for ... in), so they come out in the order they were set.
getMarketsParams_insertionOrder(filters) ==
    IF IsObject(filters) /\ "#order" \in DOMAIN filters
    THEN LET keys == filters["#order"]
             acc[i \in 0..Len(keys)] ==
                 IF i = 0 THEN URLSearchParams
                 ELSE appendIf(acc[i - 1], filters, keys[i], keys[i])
         IN  acc[Len(keys)]
    ELSE appendIf(appendIf(appendIf(URLSearchParams, filters, "market_type", "market_type"),
                           filters, "status", "status"),
                  filters, "regulation", "regulation")

\* getMarkets: the URLSearchParams built from MarketFilters
getMarketsParams(filters) ==
    LET p1 == appendIf(URLSearchParams, filters, "market_type", "market_type")
        p2 == appendIf(p1, filters, "status", "status")
        p3 == appendIf(p2, filters, "regulation", "regulation")
    IN  p3

getMarketsPath(filters) == withQuery(<<"/", "markets">>, toString(getMarketsParams(filters)))

getMarkets(c, filters) == request(c, "GET", getMarketsPath(filters), Undefined, TRUE)

\* getOrders: the URLSearchParams built from OrderFilters
getOrdersParams(filters) ==
    LET p1 == appendIf(URLSearchParams, filters, "wallet", "wallet")
        p2 == appendIf(p1, filters, "market_id", "market_id")
        p3 == appendIf(p2, filters, "status", "status")
        p4 == appendIf(p3, filters, "order_type", "order_type")
        p5 == appendIf(p4, filters, "from_date", "from_date")
        p6 == appendIf(p5, filters, "to_date", "to_date")
    IN  p6

getOrdersPath(filters) == withQuery(<<"/", "orders">>, toString(getOrdersParams(filters)))

getOrders(c, filters) == request(c, "GET", getOrdersPath(filters), Undefined, TRUE)

\* Variant: start_time and end_time are sent like the other fields.
getTimeSeriesRecordsParams_sendsTimes(filters) ==
    LET p1 == appendIf(URLSearchParams, filters, "market_id", "market")
        p2 == appendIf(p1, filters, "asset", "asset")
        p3 == appendIf(p2, filters, "interval", "interval")
        p4 == appendIf(p3, filters, "start_time", "start_time")
        p5 == appendIf(p4, filters, "end_time", "end_time")
        p6 == appendIf(p5, filters, "data_provider", "data_provider")
    IN  p6

\* getTimeSeriesRecords: the URLSearchParams built from TimeSeriesFilters.
\* market_id goes under the name market; start_time adds duration_sec with
\* an empty value; end_time is not read.
getTimeSeriesRecordsParams(filters) ==
    LET p1 == appendIf(URLSearchParams, filters, "market_id", "market")
        p2 == appendIf(p1, filters, "asset", "asset")
        p3 == appendIf(p2, filters, "interval", "interval")
        p4 == IF Truthy(OptField(filters, "start_time"))
              THEN append(p3, <<"duration_sec">>, <<>>)
              ELSE p3
        p5 == appendIf(p4, filters, "data_provider", "data_provider")
    IN  p5

getTimeSeriesRecordsPath(filters) ==
    withQuery(<<"/", "time-series">>, toString(getTimeSeriesRecordsParams(filters)))

getTimeSeriesRecords(c, filters) ==
    request(c, "GET", getTimeSeriesRecordsPath(filters), Undefined, TRUE)

-----------------------------------------------------------------------------
(* Faucet and mutations                                                    *)

\* Variant: the faucet call suppresses authentication.
airdrop_noAuth(c, airdropArgs) ==
    request(c, "POST", <<"/", "faucet">>, airdropArgs, FALSE)

\* airdrop: POST /faucet with the argument object as body
airdrop(c, airdropArgs) ==
    request(c, "POST", <<"/", "faucet">>, airdropArgs, TRUE)

\* processMutation: POST /process with the action as body
processMutation(c, action) ==
    request(c, "POST", <<"/", "process">>, action, TRUE)

createAccount(c, input)       == processMutation(c, [Accounts |-> [CreateAccount |-> input]])
updateAccountStatus(c, input) == processMutation(c, [Accounts |-> [UpdateAccountStatus |-> input]])
createWallet(c, input)        == processMutation(c, [Accounts |-> [CreateWallet |-> input]])
createAsset(c, input)         == processMutation(c, [Assets |-> [CreateAsset |-> input]])
createExistingAsset(c, assetId) == processMutation(c, [Assets |-> [CreateExistingAsset |-> assetId]])
createMarket(c, input)        == processMutation(c, [Markets |-> [CreateMarket |-> input]])
updateMarketStatus(c, input)  == processMutation(c, [Markets |-> [UpdateMarketStatus |-> input]])
placeOrder(c, input)          == processMutation(c, [OrderBook |-> [PlaceOrder |-> input]])
\* Variant: cancelOrder copied from placeOrder with the inner tag left as it was.
cancelOrder_placeOrderTag(c, orderId) == processMutation(c, [OrderBook |-> [PlaceOrder |-> orderId]])
cancelOrder(c, orderId)       == processMutation(c, [OrderBook |-> [CancelOrder |-> orderId]])
addTimeSeriesRecord(c, input) == processMutation(c, [MarketTimeSeries |-> [AddRecord |-> input]])
createLendingPool(c, input)   == processMutation(c, [Pool |-> [CreateLendingPool |-> input]])
supplyLiquidity(c, input)     == processMutation(c, [Pool |-> [SupplyLiquidity |-> input]])
withdrawLiquidity(c, input)   == processMutation(c, [Pool |-> [WithdrawLiquidity |-> input]])
borrowAsset(c, input)         == processMutation(c, [Pool |-> [BorrowAsset |-> input]])
repayBorrow(c, input)         == processMutation(c, [Pool |-> [RepayBorrow |-> input]])

-----------------------------------------------------------------------------
(* MutationResponseHelpers (cradle-api-client.ts 557-622)                  *)

\* How the evaluation of a predicate ends: it returns true or false, or the
\* in operator throws a TypeError because its right operand is no object.
\* outer in response && inner in response[outer]
inAndIn(response, outer, inner) ==
    IF IsPrim(response) THEN "TypeError"
    ELSE IF outer \notin DOMAIN response THEN "false"
    ELSE IF IsPrim(response[outer]) THEN "TypeError"
    ELSE IF inner \in DOMAIN response[outer] THEN "true"
    ELSE "false"

isCreateAccount(response) == inAndIn(response, "Accounts", "CreateAccount")
isUpdateAccountStatus(response) == inAndIn(response, "Accounts", "UpdateAccountStatus")
isCreateWallet(response) == inAndIn(response, "Accounts", "CreateWallet")
isCreateAsset(response) == inAndIn(response, "Assets", "CreateAsset")
\* Variant: isCreateExistingAsset looks at the outer tag only.
isCreateExistingAsset_outerOnly(response) ==
    IF IsPrim(response) THEN "TypeError"
    ELSE IF "Assets" \in DOMAIN response THEN "true" ELSE "false"
isCreateExistingAsset(response) == inAndIn(response, "Assets", "CreateExistingAsset")
isCreateMarket(response) == inAndIn(response, "Markets", "CreateMarket")
isUpdateMarketStatus(response) == inAndIn(response, "Markets", "UpdateMarketStatus")
isPlaceOrder(response) == inAndIn(response, "OrderBook", "PlaceOrder")
\* Variant: isCancelOrder copied from isPlaceOrder with the inner tag left as it was.
isCancelOrder_placeOrderTag(response) == inAndIn(response, "OrderBook", "PlaceOrder")
isCancelOrder(response) == inAndIn(response, "OrderBook", "CancelOrder")
\* Variant: isAddRecord looks for the outer tag under the name of the endpoint.
isAddRecord_timeSeriesTag(response) == inAndIn(response, "TimeSeries", "AddRecord")
isAddRecord(response) == inAndIn(response, "MarketTimeSeries", "AddRecord")
isCreateLendingPool(response) == inAndIn(response, "Pool", "CreateLendingPool")
isSupplyLiquidity(response) == inAndIn(response, "Pool", "SupplyLiquidity")
isWithdrawLiquidity(response) == inAndIn(response, "Pool", "WithdrawLiquidity")
isBorrowAsset(response) == inAndIn(response, "Pool", "BorrowAsset")
isRepayBorrow(response) == inAndIn(response, "Pool", "RepayBorrow")
isCreateRepayment(response) == inAndIn(response, "Loans", "CreateRepayment")
isCreateLiquidation(response) == inAndIn(response, "Loans", "CreateLiquidation")

\* The names of the predicates of MutationResponseHelpers.
MutationResponseHelpers ==
    {"isCreateAccount", "isUpdateAccountStatus", "isCreateWallet",
     "isCreateAsset", "isCreateExistingAsset", "isCreateMarket",
     "isUpdateMarketStatus", "isPlaceOrder", "isCancelOrder",
     "isAddRecord", "isCreateLendingPool", "isSupplyLiquidity",
     "isWithdrawLiquidity", "isBorrowAsset", "isRepayBorrow",
     "isCreateRepayment", "isCreateLiquidation"}

\* MutationResponseHelpers[helper](response)
applyHelper(helper, response) ==
    CASE helper = "isCreateAccount" -> isCreateAccount(response)
      [] helper = "isUpdateAccountStatus" -> isUpdateAccountStatus(response)
      [] helper = "isCreateWallet" -> isCreateWallet(response)
      [] helper = "isCreateAsset" -> isCreateAsset(response)
      [] helper = "isCreateExistingAsset" -> isCreateExistingAsset(response)
      [] helper = "isCreateMarket" -> isCreateMarket(response)
      [] helper = "isUpdateMarketStatus" -> isUpdateMarketStatus(response)
      [] helper = "isPlaceOrder" -> isPlaceOrder(response)
      [] helper = "isCancelOrder" -> isCancelOrder(response)
      [] helper = "isAddRecord" -> isAddRecord(response)
      [] helper = "isCreateLendingPool" -> isCreateLendingPool(response)
      [] helper = "isSupplyLiquidity" -> isSupplyLiquidity(response)
      [] helper = "isWithdrawLiquidity" -> isWithdrawLiquidity(response)
      [] helper = "isBorrowAsset" -> isBorrowAsset(response)
      [] helper = "isRepayBorrow" -> isRepayBorrow(response)
      [] helper = "isCreateRepayment" -> isCreateRepayment(response)
      [] helper = "isCreateLiquidation" -> isCreateLiquidation(response)

-----------------------------------------------------------------------------
(* The public methods and the arguments the model calls them with          *)

NoArgMethods ==
    {"getAssets", "getAllLoans", "getAllRepayments", "getAllLiquidations",
     "getLendingPools"}

OneIdMethods ==
    {"getAccount", "getAccountByLinkedId", "getAccountWallets", "getWallet",
     "getWalletByAccountId", "getAsset", "getAssetByToken",
     "getAssetByManager", "getMarket", "getOrder", "getTimeSeriesRecord",
     "getLendingPool", "getLendingTransactions",
     "getLendingTransactionsByWallet", "getLoans", "getLoansByWallet",
     "getLoan", "getLendingPoolByAddress", "getPoolSnapshot",
     "getLoansByPool", "getLoansByStatus", "getRepaymentsByLoan",
     "getLiquidationsByLoan", "getPoolInterestRates",
     "getPoolCollateralInfo", "getPoolStatistics", "getLendingPoolByName"}

TwoIdMethods == {"getUserPositions"}

FilteredMethods == {"getMarkets", "getOrders", "getTimeSeriesRecords"}

WrapperMethods ==
    {"createAccount", "updateAccountStatus", "createWallet", "createAsset",
     "createExistingAsset", "createMarket", "updateMarketStatus",
     "placeOrder", "cancelOrder", "addTimeSeriesRecord", "createLendingPool",
     "supplyLiquidity", "withdrawLiquidity", "borrowAsset", "repayBorrow"}

\* Every method that goes through request.
RequestMethods ==
    NoArgMethods \cup OneIdMethods \cup TwoIdMethods \cup FilteredMethods
        \cup WrapperMethods \cup {"airdrop", "processMutation"}

Methods == RequestMethods \cup {"health"}

\* The HTTP requests that method op issues on client c for the arguments a.
MethodCall(c, op, a) ==
    CASE op = "getAssets" -> getAssets(c)
      [] op = "getAllLoans" -> getAllLoans(c)
      [] op = "getAllRepayments" -> getAllRepayments(c)
      [] op = "getAllLiquidations" -> getAllLiquidations(c)
      [] op = "getLendingPools" -> getLendingPools(c)
      [] op = "getAccount" -> getAccount(c, a[1])
      [] op = "getAccountByLinkedId" -> getAccountByLinkedId(c, a[1])
      [] op = "getAccountWallets" -> getAccountWallets(c, a[1])
      [] op = "getWallet" -> getWallet(c, a[1])
      [] op = "getWalletByAccountId" -> getWalletByAccountId(c, a[1])
      [] op = "getAsset" -> getAsset(c, a[1])
      [] op = "getAssetByToken" -> getAssetByToken(c, a[1])
      [] op = "getAssetByManager" -> getAssetByManager(c, a[1])
      [] op = "getMarket" -> getMarket(c, a[1])
      [] op = "getOrder" -> getOrder(c, a[1])
      [] op = "getTimeSeriesRecord" -> getTimeSeriesRecord(c, a[1])
      [] op = "getLendingPool" -> getLendingPool(c, a[1])
      [] op = "getLendingTransactions" -> getLendingTransactions(c, a[1])
      [] op = "getLendingTransactionsByWallet" -> getLendingTransactionsByWallet(c, a[1])
      [] op = "getLoans" -> getLoans(c, a[1])
      [] op = "getLoansByWallet" -> getLoansByWallet(c, a[1])
      [] op = "getLoan" -> getLoan(c, a[1])
      [] op = "getLendingPoolByAddress" -> getLendingPoolByAddress(c, a[1])
      [] op = "getPoolSnapshot" -> getPoolSnapshot(c, a[1])
      [] op = "getLoansByPool" -> getLoansByPool(c, a[1])
      [] op = "getLoansByStatus" -> getLoansByStatus(c, a[1])
      [] op = "getRepaymentsByLoan" -> getRepaymentsByLoan(c, a[1])
      [] op = "getLiquidationsByLoan" -> getLiquidationsByLoan(c, a[1])
      [] op = "getPoolInterestRates" -> getPoolInterestRates(c, a[1])
      [] op = "getPoolCollateralInfo" -> getPoolCollateralInfo(c, a[1])
      [] op = "getPoolStatistics" -> getPoolStatistics(c, a[1])
      [] op = "getLendingPoolByName" -> getLendingPoolByName(c, a[1])
      [] op = "getUserPositions" -> getUserPositions(c, a[1], a[2])
      [] op = "getMarkets" -> getMarkets(c, a[1])
      [] op = "getOrders" -> getOrders(c, a[1])
      [] op = "getTimeSeriesRecords" -> getTimeSeriesRecords(c, a[1])
      [] op = "airdrop" -> airdrop(c, a[1])
      [] op = "processMutation" -> processMutation(c, a[1])
      [] op = "createAccount" -> createAccount(c, a[1])
      [] op = "updateAccountStatus" -> updateAccountStatus(c, a[1])
      [] op = "createWallet" -> createWallet(c, a[1])
      [] op = "createAsset" -> createAsset(c, a[1])
      [] op = "createExistingAsset" -> createExistingAsset(c, a[1])
      [] op = "createMarket" -> createMarket(c, a[1])
      [] op = "updateMarketStatus" -> updateMarketStatus(c, a[1])
      [] op = "placeOrder" -> placeOrder(c, a[1])
      [] op = "cancelOrder" -> cancelOrder(c, a[1])
      [] op = "addTimeSeriesRecord" -> addTimeSeriesRecord(c, a[1])
      [] op = "createLendingPool" -> createLendingPool(c, a[1])
      [] op = "supplyLiquidity" -> supplyLiquidity(c, a[1])
      [] op = "withdrawLiquidity" -> withdrawLiquidity(c, a[1])
      [] op = "borrowAsset" -> borrowAsset(c, a[1])
      [] op = "repayBorrow" -> repayBorrow(c, a[1])
      [] op = "health" -> health(c)

\* Variant: a wrapper outside the Accounts group refuses data tagged Accounts.
MethodSettle_crossCheck(op, outcome) ==
    IF op = "health" THEN healthSettle(outcome)
    ELSE IF /\ op \in WrapperMethods \ {"createAccount", "updateAccountStatus", "createWallet"}
            /\ outcome.kind = "fulfilled"
            /\ IsEnvelopeShaped(outcome.response.data)
            /\ IsObject(outcome.response.data.data)
            /\ "Accounts" \in DOMAIN outcome.response.data.data
         THEN Resolved(ApiResponse(FALSE, Null, Str(<<"Unexpected response">>)))
         ELSE requestSettle(outcome)

\* What the promise of method op settles with for an outcome of its HTTP call.
MethodSettle(op, outcome) ==
    IF op = "health" THEN healthSettle(outcome) ELSE requestSettle(outcome)

\* Identifiers passed as path parameters.
Ids == {<<"id-1">>, <<"a", "/", "b">>}

\* The tag pairs of MutationAction and MutationResponse.
Operations ==
    {<<"Accounts", "CreateAccount">>, <<"Accounts", "UpdateAccountStatus">>,
     <<"Accounts", "CreateWallet">>, <<"Assets", "CreateAsset">>,
     <<"Assets", "CreateExistingAsset">>, <<"Markets", "CreateMarket">>,
     <<"Markets", "UpdateMarketStatus">>, <<"OrderBook", "PlaceOrder">>,
     <<"OrderBook", "CancelOrder">>, <<"MarketTimeSeries", "AddRecord">>,
     <<"Pool", "CreateLendingPool">>, <<"Pool", "SupplyLiquidity">>,
     <<"Pool", "WithdrawLiquidity">>, <<"Pool", "BorrowAsset">>,
     <<"Pool", "RepayBorrow">>, <<"Loans", "CreateRepayment">>,
     <<"Loans", "CreateLiquidation">>}

\* The object {[outer]: {[inner]: payload}}.
Tagged(outer, inner, payload) == outer :> (inner :> payload)

\* Payloads of mutation inputs: a string, an input object.
Inputs ==
    {Str(<<"asset-1">>),
     [linked_account_id |-> Str(<<"user-1">>), account_type |-> Str(<<"retail">>)]}

\* Filter objects the calls of this specification pass: none, and one example
\* per method (the whole space of filters is explored by SpecQuery).
SampleFilters(op) ==
    CASE op = "getMarkets" ->
           {Undefined,
            [market_type |-> Str(<<"spot">>), status |-> Str(<<"active">>)]}
      [] op = "getOrders" ->
           {Undefined,
            [wallet |-> Str(<<"w", " ", "1">>), status |-> Str(<<>>), to_date |-> Str(<<"2024", ":", "00">>)]}
      [] op = "getTimeSeriesRecords" ->
           {Undefined,
            [market_id |-> Str(<<"m-1">>), start_time |-> Str(<<"t0">>), end_time |-> Str(<<"t1">>)]}

\* The fields the filter interfaces declare: MarketFilters, OrderFilters,
\* TimeSeriesFilters.
DeclaredFields(op) ==
    CASE op = "getMarkets" -> {"market_type", "status", "regulation"}
      [] op = "getOrders"  -> {"wallet", "market_id", "status", "order_type",
                               "from_date", "to_date"}
      [] op = "getTimeSeriesRecords" ->
                              {"market_id", "asset", "interval", "start_time",
                               "end_time", "data_provider"}

\* What a filter field can hold: nothing, the empty string, a plain word, a
\* text with characters that URL encoding changes.
FieldValues ==
    {Undefined, Str(<<>>), Str(<<"spot">>), Str(<<"a", " ", "b", "&", "c", "=", "d">>)}

\* Every filter object over the declared fields, and no filter object at all.
AllFilters(op) == {Undefined} \cup [DeclaredFields(op) -> FieldValues]

\* What the backend can put in the data field of the answer to a mutation:
\* every outer tag over every inner tag with a string or null payload (the 17
\* variants of MutationResponse are among them), and values that are none.
OuterTags == {o[1] : o \in Operations}
InnerTags == {o[2] : o \in Operations}
Payloads == {Str(<<"id-1">>), Null}
TaggedResponses ==
    {Tagged(outer, inner, p) : outer \in OuterTags, inner \in InnerTags, p \in Payloads}
UnexpectedResponses ==
    {Str(<<"ok">>), Num(1),
     Tagged("Unknown", "CreateAccount", Str(<<"id-1">>)),
     Tagged("Accounts", "Unknown", Str(<<"id-1">>)),
     [Accounts |-> Null],
     [Pool |-> Str(<<"closed">>)],
     [Loans |-> Num(1)],
     [Accounts |-> [CreateAccount |-> Str(<<"id-1">>)],
      Pool |-> [RepayBorrow |-> Null]]}
Responses == TaggedResponses \cup UnexpectedResponses

\* A JavaScript object keeps the order in which its properties were set.
\* Where that order is of interest the object carries it under "#order", a
\* name no interface declares; the code reads filter fields by name only.
OrderValues == {Str(<<"spot">>)}

\* Every order in which the properties S can have been set.
RECURSIVE Perms(_)
Perms(S) ==
    IF S = {} THEN {<<>>}
    ELSE UNION {{<<k>> \o keys : keys \in Perms(S \ {k})} : k \in S}

\* Every filter object with some of the declared fields set, in every order.
OrderedFilters(op) ==
    UNION {{f @@ ("#order" :> keys) : f \in [S -> OrderValues], keys \in Perms(S)} :
              S \in SUBSET DeclaredFields(op)}

\* The argument lists the model calls method op with.
ArgsOf(op) ==
    CASE op \in NoArgMethods \cup {"health"} -> {<<>>}
      [] op \in OneIdMethods     -> {<<id>> : id \in Ids}
      [] op \in TwoIdMethods     -> {<<id, id2>> : id \in Ids, id2 \in Ids}
      [] op \in FilteredMethods  -> {<<f>> : f \in SampleFilters(op)}
      [] op = "airdrop"          -> {<<[account |-> Str(<<"acc-1">>), asset |-> Str(<<"asset-1">>)]>>}
      [] op = "processMutation"  -> {<<Tagged(o[1], o[2], Str(<<"x">>))>> : o \in Operations}
      [] op \in WrapperMethods   -> {<<x>> : x \in Inputs}

-----------------------------------------------------------------------------
(* What the backend and the network can do to an HTTP call                 *)

OkStatuses  == {200, 204}
ErrStatuses == {404, 500}

\* Response bodies as axios hands them over in response.data: envelopes that
\* meet the success/data/error invariant, envelopes that do not, a liveness
\* body, text that is not JSON, an empty body, JSON null and JSON 0.
Bodies ==
    {ApiResponse(TRUE, Str(<<"acc-1">>), Null),
     ApiResponse(TRUE, Tagged("Accounts", "CreateAccount", Str(<<"acc-1">>)), Null),
     ApiResponse(FALSE, Null, Str(<<"not found">>)),
     ApiResponse(TRUE, Null, Str(<<"not found">>)),
     ApiResponse(FALSE, Str(<<"acc-1">>), Null),
     HealthResponse(Str(<<"ok">>), Str(<<"2024-01-01">>)),
     Str(<<"<html>502 Bad Gateway</html>">>),
     Str(<<"{\"success\"", ":", "tru">>),
     Str(<<>>),
     Null,
     Num(0)}

\* AxiosError message of a response whose status validateStatus refuses.
StatusMessage(status) == Str(<<"Request failed with status code " \o ToString(status)>>)

\* AxiosError message of a timeout.
TimeoutMessage(timeout) == Str(<<"timeout of " \o ToString(timeout) \o "ms exceeded">>)

-----------------------------------------------------------------------------
(* State machine                                                           *)

Idle == [pc |-> "idle"]

\* No other invocation is in progress.
NoOthers == [i \in 1..MaxOthers |-> Idle]

Init ==
    /\ cradleConfig \in CradleApiConfig
    /\ client = constructor(cradleConfig)
    /\ call = Idle
    /\ others = NoOthers
    /\ invocations = 0
    /\ requests = 0

\* Variant: health points the shared axios instance at the health URL instead
\* of building the URL for a request of its own.
InvokeWith_sharedDefaults(op, a) ==
    /\ call.pc = "idle"
    /\ invocations < MaxCalls
    /\ LET wire == MethodCall(client, op, a)
       IN  /\ call' = [pc |-> "pending", op |-> op, args |-> a, wire |-> wire]
           /\ requests' = requests + Len(wire)
    /\ invocations' = invocations + 1
    /\ client' = IF op = "health"
                 THEN [client EXCEPT !.baseURL = @ \o <<"/", "health">>]
                 ELSE client
    /\ UNCHANGED <<cradleConfig, others>>

\* The caller invokes a public method: the method runs up to its await, which
\* puts its HTTP request on the wire.
InvokeWith(op, a) ==
    /\ call.pc = "idle"
    /\ invocations < MaxCalls
    /\ LET wire == MethodCall(client, op, a)
       IN  /\ call' = [pc |-> "pending", op |-> op, args |-> a, wire |-> wire]
           /\ requests' = requests + Len(wire)
    /\ invocations' = invocations + 1
    /\ UNCHANGED <<cradleConfig, client, others>>

Invoke ==
    /\ call.pc = "idle"
    /\ \E op \in Methods : \E a \in ArgsOf(op) : InvokeWith(op, a)

\* Variant: a failed HTTP call is sent once more before the promise settles.
Settle_retry(outcome) ==
    /\ call.pc = "pending"
    /\ IF outcome.kind = "rejected" /\ Len(call.wire) < 2
       THEN /\ call' = [call EXCEPT !.wire = @ \o @]
            /\ requests' = requests + 1
            /\ UNCHANGED <<cradleConfig, client, others, invocations>>
       ELSE /\ call' = [pc |-> "settled", op |-> call.op, args |-> call.args,
                        wire |-> call.wire, outcome |-> outcome,
                        result |-> MethodSettle(call.op, outcome)]
            /\ UNCHANGED <<cradleConfig, client, others, invocations, requests>>

\* The awaited HTTP call ends with outcome, the method resumes and its promise
\* settles.
Settle(outcome) ==
    /\ call.pc = "pending"
    /\ call' = [pc |-> "settled", op |-> call.op, args |-> call.args,
                wire |-> call.wire, outcome |-> outcome,
                result |-> MethodSettle(call.op, outcome)]
    /\ UNCHANGED <<cradleConfig, client, others, invocations, requests>>

\* A response with a 2xx status: the axios promise is fulfilled.
Respond2xx ==
    /\ call.pc = "pending"
    /\ \E status \in OkStatuses, body \in Bodies : Settle(Fulfilled(status, body))

\* A response with another status: axios rejects with an AxiosError that
\* carries the response.
RespondError ==
    /\ call.pc = "pending"
    /\ \E status \in ErrStatuses, body \in Bodies :
          Settle(Thrown(AxiosError(StatusMessage(status),
                                   [status |-> status, data |-> body])))

\* No response within the timeout of the request (0 means no timeout).
Timeout ==
    /\ call.pc = "pending"
    /\ call.wire[1].timeout > 0
    /\ Settle(Thrown(AxiosError(TimeoutMessage(call.wire[1].timeout), Undefined)))

\* The connection fails: an AxiosError without response.
NetworkError ==
    /\ call.pc = "pending"
    /\ \E message \in {Str(<<"Network Error">>), Str(<<>>)} :
          Settle(Thrown(AxiosError(message, Undefined)))

\* Something other than axios throws an Error inside the call.
ThrowError ==
    /\ call.pc = "pending"
    /\ \E message \in {Str(<<"boom">>), Str(<<>>)} :
          Settle(Thrown(PlainError(message)))

\* Something throws a value that is not an Error.
ThrowValue ==
    /\ call.pc = "pending"
    /\ Settle(Thrown(ThrownValue))

\* The caller takes the settled promise; the client is ready for the next call.
Return ==
    /\ call.pc \in {"settled", "narrowed"}
    /\ call' = Idle
    /\ UNCHANGED <<cradleConfig, client, others, invocations, requests>>

Next ==
    \/ Invoke
    \/ Respond2xx
    \/ RespondError
    \/ Timeout
    \/ NetworkError
    \/ ThrowError
    \/ ThrowValue
    \/ Return

Spec == Init /\ [][Next]_vars

\* The filtered read methods on a client built with the default base URL and
\* timeout, over every filter object.
InitQuery ==
    /\ cradleConfig \in {cfg \in CradleApiConfig :
                            cfg.baseUrl = Undefined /\ cfg.timeout = Undefined}
    /\ client = constructor(cradleConfig)
    /\ call = Idle
    /\ others = NoOthers
    /\ invocations = 0
    /\ requests = 0

InvokeQuery ==
    /\ call.pc = "idle"
    /\ \E op \in FilteredMethods : \E f \in AllFilters(op) : InvokeWith(op, <<f>>)

\* The same methods called with a filter object whose properties were set in
\* a given order.
InvokeOrdered ==
    /\ call.pc = "idle"
    /\ \E op \in FilteredMethods : \E f \in OrderedFilters(op) : InvokeWith(op, <<f>>)

\* interface LendingPoolFilters, with the values the example program and a
\* caller may put in: nothing, an asset id, a ratio.
LendingPoolFilters ==
    [reserve_asset : {Undefined, Str(<<"asset-1">>)},
     min_loan_to_value : {Undefined, Str(<<"0.5">>)},
     max_loan_to_value : {Undefined, Str(<<"0.8">>)}]

\* getLendingPools called with a filter object, as the example program does:
\* the method declares no parameter, JavaScript drops the argument.
InvokeLendingPools ==
    /\ call.pc = "idle"
    /\ \E f \in LendingPoolFilters : InvokeWith("getLendingPools", <<f>>)

NextQuery ==
    \/ InvokeQuery
    \/ InvokeOrdered
    \/ InvokeLendingPools
    \/ Timeout
    \/ Return

SpecQuery == InitQuery /\ [][NextQuery]_vars

\* The mutation methods on a client built with the default base URL and
\* timeout, answered with a success envelope around any data, which the caller
\* then narrows with MutationResponseHelpers.
MutationMethods == WrapperMethods \cup {"processMutation"}

InvokeMutation ==
    /\ call.pc = "idle"
    /\ \E op \in MutationMethods : \E a \in ArgsOf(op) : InvokeWith(op, a)

RespondMutation ==
    /\ call.pc = "pending"
    /\ \E r \in Responses : Settle(Fulfilled(200, ApiResponse(TRUE, r, Null)))

\* if (response.success && response.data) { MutationResponseHelpers.isX(response.data) ... }
\* The model applies every predicate to the data.
Narrow ==
    /\ call.pc = "settled"
    /\ call.op \in MutationMethods
    /\ call.result.settle = "resolved"
    /\ IsEnvelopeShaped(call.result.value)
    /\ call.result.value.success = TRUE
    /\ Truthy(call.result.value.data)
    /\ call' = [pc |-> "narrowed", op |-> call.op, args |-> call.args,
                wire |-> call.wire, outcome |-> call.outcome, result |-> call.result,
                helpers |-> [h \in MutationResponseHelpers |->
                                applyHelper(h, call.result.value.data)]]
    /\ UNCHANGED <<cradleConfig, client, others, invocations, requests>>

NextMutation ==
    \/ InvokeMutation
    \/ RespondMutation
    \/ Narrow
    \/ Return

SpecMutation == InitQuery /\ [][NextMutation]_vars

\* Several invocations in progress at once on one client: the promises of
\* the methods are independent, so the caller can start a method while others
\* are pending and the HTTP calls can end in any order.
ConcMethods ==
    {"getAccount", "getAccountWallets", "getWalletByAccountId", "getMarkets",
     "health", "airdrop", "createAccount"}

ConcOutcomes ==
    {Fulfilled(200, ApiResponse(TRUE, Str(<<"acc-1">>), Null)),
     Thrown(AxiosError(StatusMessage(500),
                       [status |-> 500,
                        data |-> ApiResponse(FALSE, Null, Str(<<"not found">>))])),
     Thrown(AxiosError(Str(<<"Network Error">>), Undefined))}

\* The clients of this specification: either apiKey, the default or a given
\* base URL, the default timeout.
InitConc ==
    /\ cradleConfig \in {cfg \in CradleApiConfig :
                            cfg.timeout = Undefined /\ cfg.baseUrl # Str(<<>>)}
    /\ client = constructor(cradleConfig)
    /\ call = Idle
    /\ others = NoOthers
    /\ invocations = 0
    /\ requests = 0

InvokeConc ==
    /\ call.pc = "idle"
    /\ \E op \in ConcMethods : \E a \in ArgsOf(op) : InvokeWith(op, a)

SettleConc ==
    /\ call.pc = "pending"
    /\ \E outcome \in ConcOutcomes : Settle(outcome)

InvokeOther ==
    \E i \in 1..MaxOthers :
        /\ others[i].pc = "idle"
        /\ invocations < MaxCalls
        /\ \E op \in ConcMethods : \E a \in ArgsOf(op) :
              LET wire == MethodCall(client, op, a)
              IN  /\ others' = [others EXCEPT
                                   ![i] = [pc |-> "pending", op |-> op, args |-> a,
                                           wire |-> wire]]
                  /\ requests' = requests + Len(wire)
        /\ invocations' = invocations + 1
        /\ UNCHANGED <<cradleConfig, client, call>>

SettleOther ==
    \E i \in 1..MaxOthers :
        /\ others[i].pc = "pending"
        /\ \E outcome \in ConcOutcomes :
              others' = [others EXCEPT
                            ![i] = [pc |-> "settled", op |-> others[i].op,
                                    args |-> others[i].args, wire |-> others[i].wire,
                                    outcome |-> outcome,
                                    result |-> MethodSettle(others[i].op, outcome)]]
        /\ UNCHANGED <<cradleConfig, client, call, invocations, requests>>

ReturnOther ==
    \E i \in 1..MaxOthers :
        /\ others[i].pc = "settled"
        /\ others' = [others EXCEPT ![i] = Idle]
        /\ UNCHANGED <<cradleConfig, client, call, invocations, requests>>

NextConc ==
    \/ InvokeConc
    \/ SettleConc
    \/ Return
    \/ InvokeOther
    \/ SettleOther
    \/ ReturnOther

SpecConc == InitConc /\ [][NextConc]_vars

\* The read methods that take identifiers, called with identifiers that
\* hold characters with a meaning in a URL.
PathMethods == OneIdMethods \cup TwoIdMethods

PathIds ==
    {<<"id-1">>, <<"a", "/", "b">>, <<"a", "?", "b", "=", "c">>, <<"a", "#", "b">>,
     <<"USDC", " ", "Pool">>}

InvokePath ==
    /\ call.pc = "idle"
    /\ \E op \in PathMethods :
          \E a \in IF op \in TwoIdMethods
                   THEN {<<id, id2>> : id \in PathIds, id2 \in PathIds}
                   ELSE {<<id>> : id \in PathIds} :
              InvokeWith(op, a)

NextPath ==
    \/ InvokePath
    \/ Timeout
    \/ Return

SpecPath == InitQuery /\ [][NextPath]_vars

\* The timer of a request with a timeout fires once the timeout has elapsed.
LiveSpec == Init /\ [][Next]_vars /\ WF_vars(Timeout)

-----------------------------------------------------------------------------
(* Vocabulary of the properties                                            *)

\* A call of a method that goes through request has settled.
ViaRequest == call.pc = "settled" /\ call.op \in RequestMethods

\* data or error is present when it is neither null nor undefined.
Present(v) == v \notin {Null, Undefined}

\* success = true iff data is present and error is absent.
EnvelopeInvariant(v) ==
    /\ IsEnvelopeShaped(v)
    /\ (v.success = TRUE) <=> (Present(v.data) /\ ~Present(v.error))

\* {success: false, data: null, error: <string>}
Synthesized(v) ==
    /\ IsEnvelopeShaped(v)
    /\ v.success = FALSE
    /\ v.data = Null
    /\ IsString(v.error)

\* A synthesized envelope whose error string is not empty.
SynthesizedNonEmpty(v) == Synthesized(v) /\ v.error.v # <<>>

\* The HTTP call produced a response (of any status).
HasResponse(outcome) ==
    \/ outcome.kind = "fulfilled"
    \/ outcome.kind = "rejected" /\ IsObject(outcome.error.response)

ResponseOf(outcome) ==
    IF outcome.kind = "fulfilled" THEN outcome.response ELSE outcome.error.response

\* The failure of the HTTP call came without any response.
NoResponse(outcome) == outcome.kind = "rejected" /\ IsPrim(outcome.error.response)

\* The part of a URL after its first "?" (empty when there is none).
RECURSIVE QueryOf(_)
QueryOf(url) ==
    IF url = <<>> THEN <<>>
    ELSE IF Head(url) = "?" THEN Tail(url) ELSE QueryOf(Tail(url))

\* The tokens of s before the first sep, and those after it.
RECURSIVE Before(_, _)
Before(s, sep) ==
    IF s = <<>> \/ Head(s) = sep THEN <<>> ELSE <<Head(s)>> \o Before(Tail(s), sep)

RECURSIVE After(_, _)
After(s, sep) ==
    IF s = <<>> THEN <<>>
    ELSE IF Head(s) = sep THEN Tail(s) ELSE After(Tail(s), sep)

\* The name=value pairs of a query string, as <<name, value>>, in order.
RECURSIVE QueryPairs(_)
QueryPairs(query) ==
    IF query = <<>> THEN <<>>
    ELSE LET part == Before(query, "&")
         IN  <<<<Before(part, "="), After(part, "=")>>>> \o QueryPairs(After(query, "&"))

\* The pairs of the request on the wire.
WirePairs == QueryPairs(QueryOf(call.wire[1].url))

\* The names of those pairs.
WireNames == {WirePairs[i][1] : i \in 1..Len(WirePairs)}

\* A filtered read method has been invoked with filters.
FilteredCall == call.pc # "idle" /\ call.op \in FilteredMethods

-----------------------------------------------------------------------------
(* Properties                                                              *)

\* C1: whatever the outcome of its HTTP call (2xx, non-2xx with or without a
\* body, timeout, network error, a thrown Error, a thrown non-Error value),
\* the promise of a method routed through request resolves, never rejects.
C1_NeverRejects ==
    ViaRequest => call.result.settle = "resolved"

\* A getAccount call whose HTTP call threw a non-Error value has resolved.
C1_Witness ==
    /\ ViaRequest
    /\ call.op = "getAccount"
    /\ call.outcome = Thrown(ThrownValue)
    /\ call.result.settle = "resolved"

\* C2 as stated: every value request returns, passed through or synthesized,
\* satisfies the envelope invariant, for any body the backend sends.
C2_Original ==
    ViaRequest => EnvelopeInvariant(call.result.value)

\* C2 amended: request returns either the response body as the backend sent
\* it (every 2xx body, every truthy non-2xx body) or an envelope it
\* synthesizes, and every synthesized envelope has success = false, data =
\* null and a string error, hence satisfies the invariant.
C2_SynthesizedOrVerbatim ==
    ViaRequest =>
        IF HasResponse(call.outcome)
           /\ (call.outcome.kind = "fulfilled" \/ Truthy(ResponseOf(call.outcome).data))
        THEN call.result = Resolved(ResponseOf(call.outcome).data)
        ELSE Synthesized(call.result.value) /\ EnvelopeInvariant(call.result.value)

\* A network error without message was turned into a synthesized envelope.
C2_Witness ==
    /\ ViaRequest
    /\ call.outcome = Thrown(AxiosError(Str(<<>>), Undefined))
    /\ EnvelopeInvariant(call.result.value)
    /\ call.result.value.error = Str(<<"Request failed">>)

\* C3 as stated: a failure without response (timeout, connection failure, any
\* other thrown failure) yields success = false, data = null and a non-empty
\* error string.
C3_NonEmptyError ==
    (ViaRequest /\ NoResponse(call.outcome)) => SynthesizedNonEmpty(call.result.value)

\* C4 as stated: a response whose body is not envelope-shaped is not passed
\* to the caller; request returns a synthesized envelope with a non-empty error.
C4_MalformedBodyReplaced ==
    (ViaRequest /\ HasResponse(call.outcome)
        /\ ~IsEnvelopeShaped(ResponseOf(call.outcome).data))
    => SynthesizedNonEmpty(call.result.value)

\* C5: a response with an envelope-shaped body is returned unchanged, for
\* every HTTP status, 2xx or not.
C5_EnvelopeVerbatim ==
    (ViaRequest /\ HasResponse(call.outcome)
        /\ IsEnvelopeShaped(ResponseOf(call.outcome).data))
    => call.result = Resolved(ResponseOf(call.outcome).data)

\* A 500 response carrying an envelope came back as that envelope.
C5_Witness ==
    /\ ViaRequest
    /\ HasResponse(call.outcome)
    /\ ResponseOf(call.outcome).status = 500
    /\ IsEnvelopeShaped(ResponseOf(call.outcome).data)
    /\ call.result.value = ResponseOf(call.outcome).data

\* C6: health() resolves to the body of a 2xx response and rejects with an
\* Error on every failure of its GET (no response, timeout, non-2xx status);
\* it never turns a failure into a resolved envelope.
C6_HealthRejects ==
    (call.pc = "settled" /\ call.op = "health") =>
        IF call.outcome.kind = "fulfilled"
        THEN call.result = Resolved(call.outcome.response.data)
        ELSE /\ call.result.settle = "rejected"
             /\ call.result.value.type = "Error"

\* health() got a 500 response and rejected.
C6_Witness ==
    /\ call.pc = "settled"
    /\ call.op = "health"
    /\ call.outcome.kind = "rejected"
    /\ IsObject(call.outcome.error.response)
    /\ call.outcome.error.response.status = 500
    /\ call.result.settle = "rejected"

\* C7: every HTTP request of a method other than health() carries
\* Authorization: Bearer <apiKey> with the apiKey given to the constructor;
\* the request of health() carries no Authorization header.
C7_BearerOnEveryRequest ==
    call.pc # "idle" =>
        \A i \in 1..Len(call.wire) :
            IF call.op = "health"
            THEN call.wire[i].Authorization = Undefined
            ELSE call.wire[i].Authorization = Str(<<"Bearer", " ">> \o cradleConfig.apiKey.v)

\* An airdrop request is on the wire with the bearer token of key-2.
C7_Witness ==
    /\ call.pc = "pending"
    /\ call.op = "airdrop"
    /\ cradleConfig.apiKey = Str(<<"key-2">>)
    /\ call.wire[1].Authorization = Str(<<"Bearer", " ", "key-2">>)

\* C8: an invocation issues exactly one HTTP request whatever its outcome:
\* the invocation in progress has one request on the wire, and the client
\* has sent as many requests as it has had invocations.
C8_OneRequestPerInvocation ==
    /\ requests = invocations
    /\ call.pc # "idle" => Len(call.wire) = 1

\* A second invocation has settled on a timeout and two requests were sent.
C8_Witness ==
    /\ call.pc = "settled"
    /\ call.outcome.kind = "rejected"
    /\ invocations = 2
    /\ requests = 2

\* C9: a pending call made through request eventually resolves, and a call
\* ended by the timeout resolves with a synthesized envelope whose error is
\* not empty.
C9_EventuallyResolves ==
    /\ (call.pc = "pending" /\ call.op \in RequestMethods)
          ~> (call.pc = "settled" /\ call.result.settle = "resolved")
    /\ [](ViaRequest /\ NoResponse(call.outcome)
            /\ call.outcome.error.message = TimeoutMessage(call.wire[1].timeout)
          => SynthesizedNonEmpty(call.result.value))

\* A call constructed without a timeout was ended by the 30000 ms default.
C9_Witness ==
    /\ ViaRequest
    /\ cradleConfig.timeout = Undefined
    /\ call.outcome = Thrown(AxiosError(TimeoutMessage(DefaultTimeout), Undefined))
    /\ SynthesizedNonEmpty(call.result.value)

\* C10 as stated: for getMarkets, getOrders and getTimeSeriesRecords and
\* every filter object, an omitted field contributes no key and every field
\* that is present appears under its declared name with its own value
\* URL-encoded.  (Read in favour of the code: nothing is required of a field
\* that is set to the empty string.)
C10_DeclaredNameAndValue ==
    FilteredCall =>
        \A field \in DeclaredFields(call.op) :
            LET value == OptField(call.args[1], field)
            IN  /\ value = Undefined => <<field>> \notin WireNames
                /\ Truthy(value) =>
                      \E i \in 1..Len(WirePairs) :
                          WirePairs[i] = <<<<field>>, FormEncode(value.v)>>

\* The names of the query keys of each filtered method, in the order the
\* method is documented to emit them.
KeyOrder(op) ==
    CASE op = "getMarkets" -> <<"market_type", "status", "regulation">>
      [] op = "getOrders"  -> <<"wallet", "market_id", "status", "order_type",
                                "from_date", "to_date">>
      [] op = "getTimeSeriesRecords" ->
                              <<"market", "asset", "interval", "duration_sec",
                                "data_provider">>

\* The position of a key name in a sequence of names (0 when it is not there).
Pos(names, name) ==
    IF \E i \in 1..Len(names) : <<names[i]>> = name
    THEN CHOOSE i \in 1..Len(names) : <<names[i]>> = name
    ELSE 0

\* The properties of a filter object without the order they were set in.
Contents(filters) ==
    IF IsObject(filters) /\ "#order" \in DOMAIN filters
    THEN [k \in DOMAIN filters \ {"#order"} |-> filters[k]]
    ELSE filters

\* C11: the keys of a filtered call's query string come in the fixed order
\* of its method, whatever the order the filter object's properties were set
\* in, and the request is the one the same contents give in any other order
\* and on any other call.
C11_FixedKeyOrder ==
    FilteredCall =>
        /\ LET pairs == WirePairs
               pos == [i \in 1..Len(pairs) |-> Pos(KeyOrder(call.op), pairs[i][1])]
           IN  /\ \A i \in 1..Len(pairs) : pos[i] > 0
               /\ \A i \in 1..(Len(pairs) - 1) : pos[i] < pos[i + 1]
        /\ call.wire = MethodCall(client, call.op, <<Contents(call.args[1])>>)

\* The second call of a client set status before market_type and all the
\* same sent market_type first.
C11_Witness ==
    /\ FilteredCall
    /\ invocations = 2
    /\ call.op = "getMarkets"
    /\ IsObject(call.args[1])
    /\ "#order" \in DOMAIN call.args[1]
    /\ call.args[1]["#order"] = <<"status", "market_type">>
    /\ Len(WirePairs) = 2
    /\ WirePairs[1][1] = <<"market_type">>
    /\ WirePairs[2][1] = <<"status">>

\* The outer and inner tag each convenience wrapper is named after.
WrapperTags(op) ==
    CASE op = "createAccount"       -> <<"Accounts", "CreateAccount">>
      [] op = "updateAccountStatus" -> <<"Accounts", "UpdateAccountStatus">>
      [] op = "createWallet"        -> <<"Accounts", "CreateWallet">>
      [] op = "createAsset"         -> <<"Assets", "CreateAsset">>
      [] op = "createExistingAsset" -> <<"Assets", "CreateExistingAsset">>
      [] op = "createMarket"        -> <<"Markets", "CreateMarket">>
      [] op = "updateMarketStatus"  -> <<"Markets", "UpdateMarketStatus">>
      [] op = "placeOrder"          -> <<"OrderBook", "PlaceOrder">>
      [] op = "cancelOrder"         -> <<"OrderBook", "CancelOrder">>
      [] op = "addTimeSeriesRecord" -> <<"MarketTimeSeries", "AddRecord">>
      [] op = "createLendingPool"   -> <<"Pool", "CreateLendingPool">>
      [] op = "supplyLiquidity"     -> <<"Pool", "SupplyLiquidity">>
      [] op = "withdrawLiquidity"   -> <<"Pool", "WithdrawLiquidity">>
      [] op = "borrowAsset"         -> <<"Pool", "BorrowAsset">>
      [] op = "repayBorrow"         -> <<"Pool", "RepayBorrow">>

\* A convenience wrapper has been invoked.
WrapperCall == call.pc # "idle" /\ call.op \in WrapperMethods

\* C12: the request of every convenience wrapper is POST /process with a
\* body that has exactly one outer tag and under it exactly one inner tag,
\* the pair the wrapper is named after, holding the wrapper's argument
\* unchanged.
C12_WrapperBody ==
    WrapperCall =>
        LET req   == call.wire[1]
            outer == WrapperTags(call.op)[1]
            inner == WrapperTags(call.op)[2]
        IN  /\ req.method = "POST"
            /\ req.url = client.baseURL \o <<"/", "process">>
            /\ IsObject(req.data)
            /\ DOMAIN req.data = {outer}
            /\ IsObject(req.data[outer])
            /\ DOMAIN req.data[outer] = {inner}
            /\ req.data[outer][inner] = call.args[1]

\* cancelOrder has sent its order id under OrderBook.CancelOrder.
C12_Witness ==
    /\ WrapperCall
    /\ call.op = "cancelOrder"
    /\ call.args[1] = Str(<<"asset-1">>)
    /\ call.wire[1].data = Tagged("OrderBook", "CancelOrder", Str(<<"asset-1">>))

\* The caller has applied the predicates to the data of a success envelope.
Narrowed == call.pc = "narrowed"

\* The outer and inner tag each predicate is named after.
HelperTags(helper) ==
    CASE helper = "isCreateAccount"       -> <<"Accounts", "CreateAccount">>
      [] helper = "isUpdateAccountStatus" -> <<"Accounts", "UpdateAccountStatus">>
      [] helper = "isCreateWallet"        -> <<"Accounts", "CreateWallet">>
      [] helper = "isCreateAsset"         -> <<"Assets", "CreateAsset">>
      [] helper = "isCreateExistingAsset" -> <<"Assets", "CreateExistingAsset">>
      [] helper = "isCreateMarket"        -> <<"Markets", "CreateMarket">>
      [] helper = "isUpdateMarketStatus"  -> <<"Markets", "UpdateMarketStatus">>
      [] helper = "isPlaceOrder"          -> <<"OrderBook", "PlaceOrder">>
      [] helper = "isCancelOrder"         -> <<"OrderBook", "CancelOrder">>
      [] helper = "isAddRecord"           -> <<"MarketTimeSeries", "AddRecord">>
      [] helper = "isCreateLendingPool"   -> <<"Pool", "CreateLendingPool">>
      [] helper = "isSupplyLiquidity"     -> <<"Pool", "SupplyLiquidity">>
      [] helper = "isWithdrawLiquidity"   -> <<"Pool", "WithdrawLiquidity">>
      [] helper = "isBorrowAsset"         -> <<"Pool", "BorrowAsset">>
      [] helper = "isRepayBorrow"         -> <<"Pool", "RepayBorrow">>
      [] helper = "isCreateRepayment"     -> <<"Loans", "CreateRepayment">>
      [] helper = "isCreateLiquidation"   -> <<"Loans", "CreateLiquidation">>

\* A value with one outer tag and, under it, one inner tag.
IsTagged(v) ==
    /\ IsObject(v)
    /\ Cardinality(DOMAIN v) = 1
    /\ \A outer \in DOMAIN v : IsObject(v[outer]) /\ Cardinality(DOMAIN v[outer]) = 1

\* Its tag pair.
TagsOf(v) ==
    LET outer == CHOOSE o \in DOMAIN v : TRUE
    IN  <<outer, CHOOSE i \in DOMAIN v[outer] : TRUE>>

\* The data the predicates were applied to.
NarrowedData == call.result.value.data

\* C13: applied to a response with one outer and one inner tag, a predicate
\* returns true if and only if the two tags are those of its operation, and
\* false for every other pair: the right inner tag under another outer tag
\* and another inner tag under the right outer tag included.
C13_TrueIffTagsMatch ==
    Narrowed /\ IsTagged(NarrowedData) =>
        \A h \in MutationResponseHelpers :
            call.helpers[h] = IF TagsOf(NarrowedData) = HelperTags(h) THEN "true" ELSE "false"

\* isCancelOrder was true of {OrderBook: {CancelOrder: null}} and false of
\* the neighbouring variant {OrderBook: {PlaceOrder: ...}}; isCreateAccount
\* was false of CreateAccount under another outer tag.
C13_Witness ==
    /\ Narrowed
    /\ \/ /\ NarrowedData = Tagged("OrderBook", "CancelOrder", Null)
          /\ call.helpers["isCancelOrder"] = "true"
          /\ call.helpers["isPlaceOrder"] = "false"
       \/ /\ NarrowedData = Tagged("Pool", "CreateAccount", Str(<<"id-1">>))
          /\ call.helpers["isCreateAccount"] = "false"

\* C14: of a well-formed MutationResponse, one of the 17 variants, exactly
\* one predicate returns true.
C14_ExactlyOneHelper ==
    Narrowed /\ IsTagged(NarrowedData) /\ TagsOf(NarrowedData) \in Operations =>
        Cardinality({h \in MutationResponseHelpers : call.helpers[h] = "true"}) = 1

\* Of {Assets: {CreateAsset: id}} isCreateAsset alone was true, its sibling
\* under the same outer tag was not.
C14_Witness ==
    /\ Narrowed
    /\ NarrowedData = Tagged("Assets", "CreateAsset", Str(<<"id-1">>))
    /\ {h \in MutationResponseHelpers : call.helpers[h] = "true"} = {"isCreateAsset"}

\* A response that is no MutationResponse: no object at all, no known outer
\* tag, a known outer tag whose value is no object, or no known inner tag
\* under it.
Malformed(v) ==
    \/ IsPrim(v)
    \/ DOMAIN v \cap OuterTags = {}
    \/ \E outer \in DOMAIN v \cap OuterTags :
          \/ IsPrim(v[outer])
          \/ DOMAIN v[outer] \cap InnerTags = {}

\* C15 as stated: no predicate ever throws, and of a malformed or unexpected
\* response every predicate returns false.
C15_NeverThrows ==
    Narrowed =>
        \A h \in MutationResponseHelpers :
            /\ call.helpers[h] # "TypeError"
            /\ Malformed(NarrowedData) => call.helpers[h] = "false"

\* The backend answered a mutation with a success envelope whose data carries
\* other tags than the submitted action.
TagMismatch ==
    /\ ViaRequest
    /\ call.op \in MutationMethods
    /\ call.outcome.kind = "fulfilled"
    /\ IsEnvelopeShaped(call.outcome.response.data)
    /\ call.outcome.response.data.success = TRUE
    /\ IsTagged(call.outcome.response.data.data)
    /\ TagsOf(call.outcome.response.data.data) # TagsOf(call.wire[1].data)

\* C16: what an endpoint method returns is what request produced for the
\* outcome of its one HTTP call, with nothing changed; a success envelope
\* whose data carries other tags than the submitted action comes back as the
\* backend sent it.
C16_EnvelopeUnmodified ==
    /\ ViaRequest => call.result = requestSettle(call.outcome)
    /\ TagMismatch => call.result = Resolved(call.outcome.response.data)

\* placeOrder was answered with the data of a CreateAccount and returned it.
C16_Witness ==
    /\ TagMismatch
    /\ call.op = "placeOrder"
    /\ call.result.settle = "resolved"
    /\ call.result.value =
          ApiResponse(TRUE, Tagged("Accounts", "CreateAccount", Str(<<"acc-1">>)), Null)

\* The invocations in progress: number 0 is call, the others follow.
CallAt(i) == IF i = 0 THEN call ELSE others[i]

\* C17: no method changes the configuration the constructor set, and for
\* calls in progress at the same time, started and ended in any order, the
\* request of each is the one its own method and arguments give on the
\* constructor's configuration and the value it settles with is the one its
\* own outcome gives: two calls of the same method with the same arguments
\* send the same request, and with the same outcome return the same value.
C17_CallsIndependent ==
    /\ client = constructor(cradleConfig)
    /\ \A i \in 0..MaxOthers :
          LET a == CallAt(i)
          IN  /\ a.pc # "idle" =>
                    a.wire = MethodCall(constructor(cradleConfig), a.op, a.args)
              /\ a.pc = "settled" => a.result = MethodSettle(a.op, a.outcome)
    /\ \A i, j \in 0..MaxOthers :
          LET a == CallAt(i)
              b == CallAt(j)
          IN  /\ (a.pc # "idle" /\ b.pc # "idle" /\ a.op = b.op /\ a.args = b.args)
                    => a.wire = b.wire
              /\ (a.pc = "settled" /\ b.pc = "settled" /\ a.op = b.op
                     /\ a.outcome = b.outcome)
                    => a.result = b.result

\* getAccount was started while a health call was pending and settled first,
\* with the configured base URL and bearer token on its request.
C17_Witness ==
    /\ call.pc = "settled"
    /\ call.op = "getAccount"
    /\ others[1].pc = "pending"
    /\ others[1].op = "health"
    /\ invocations = 2
    /\ call.wire[1].url = constructorBaseUrl(cradleConfig).v \o <<"/", "accounts", "/">> \o call.args[1]
    /\ call.wire[1].Authorization = Str(<<"Bearer", " ">> \o cradleConfig.apiKey.v)

\* C18 as stated: the client uses the baseUrl and the timeout the caller
\* supplied, whatever their value (0 and the empty string included), and the
\* defaults only for a field that was not supplied; the requests it sends
\* through its axios instance carry that timeout.
C18_SuppliedValuesUsed ==
    call.pc # "idle" /\ call.op \in RequestMethods =>
        /\ client.baseURL = IF cradleConfig.baseUrl = Undefined
                            THEN <<"http", ":", "/", "/", "localhost", ":", "3000">>
                            ELSE cradleConfig.baseUrl.v
        /\ client.timeout = IF cradleConfig.timeout = Undefined
                            THEN 30000
                            ELSE cradleConfig.timeout.v
        /\ call.wire[1].timeout = client.timeout

\* C19 as stated: every operation of MutationAction has a convenience
\* wrapper.  Whatever action processMutation is given, some wrapper called
\* with the action's payload sends the same request, and a wrapper sends
\* only tag pairs of MutationAction.
C19_EveryOperationHasWrapper ==
    /\ call.pc # "idle" /\ call.op = "processMutation" =>
          LET action == call.args[1]
              tags   == TagsOf(action)
          IN  \E w \in WrapperMethods :
                  MethodCall(client, w, <<action[tags[1]][tags[2]]>>) = call.wire
    /\ WrapperCall => TagsOf(call.wire[1].data) \in Operations

\* The read methods: those whose name starts with get.
GetMethods == NoArgMethods \cup OneIdMethods \cup TwoIdMethods \cup FilteredMethods

\* C20: a get method sends GET without a body; airdrop sends POST /faucet
\* with its {account, asset} argument as body; processMutation and the
\* wrappers send POST /process with the action as body; no other method
\* sends POST.
C20_VerbAndBody ==
    call.pc # "idle" =>
        LET req == call.wire[1]
        IN  /\ call.op \in GetMethods => req.method = "GET" /\ req.data = Undefined
            /\ call.op = "airdrop" =>
                  /\ req.method = "POST"
                  /\ req.url = client.baseURL \o <<"/", "faucet">>
                  /\ req.data = call.args[1]
                  /\ DOMAIN req.data = {"account", "asset"}
            /\ call.op \in MutationMethods =>
                  /\ req.method = "POST"
                  /\ req.url = client.baseURL \o <<"/", "process">>
                  /\ IsTagged(req.data)
                  /\ call.op = "processMutation" => req.data = call.args[1]
            /\ req.method = "POST" => call.op \in {"airdrop"} \cup MutationMethods
            /\ req.method \in {"GET", "POST"}

\* getLoan has sent a GET without body, airdrop a POST with its argument.
C20_Witness ==
    /\ call.pc # "idle"
    /\ \/ /\ call.op = "getLoan"
          /\ call.wire[1].method = "GET"
          /\ call.wire[1].data = Undefined
          /\ invocations = 1
       \/ /\ call.op = "airdrop"
          /\ call.wire[1].method = "POST"
          /\ call.wire[1].data = [account |-> Str(<<"acc-1">>), asset |-> Str(<<"asset-1">>)]
          /\ invocations = 2

\* The predicate named after the operation of each convenience wrapper.
PredicateOf(op) ==
    CASE op = "createAccount"       -> "isCreateAccount"
      [] op = "updateAccountStatus" -> "isUpdateAccountStatus"
      [] op = "createWallet"        -> "isCreateWallet"
      [] op = "createAsset"         -> "isCreateAsset"
      [] op = "createExistingAsset" -> "isCreateExistingAsset"
      [] op = "createMarket"        -> "isCreateMarket"
      [] op = "updateMarketStatus"  -> "isUpdateMarketStatus"
      [] op = "placeOrder"          -> "isPlaceOrder"
      [] op = "cancelOrder"         -> "isCancelOrder"
      [] op = "addTimeSeriesRecord" -> "isAddRecord"
      [] op = "createLendingPool"   -> "isCreateLendingPool"
      [] op = "supplyLiquidity"     -> "isSupplyLiquidity"
      [] op = "withdrawLiquidity"   -> "isWithdrawLiquidity"
      [] op = "borrowAsset"         -> "isBorrowAsset"
      [] op = "repayBorrow"         -> "isRepayBorrow"

\* The backend answered a wrapper with a success envelope whose data has the
\* tags of the action the wrapper submitted, and the caller narrowed it.
MirroredAnswer ==
    /\ Narrowed
    /\ call.op \in WrapperMethods
    /\ IsTagged(NarrowedData)
    /\ TagsOf(NarrowedData) = TagsOf(call.wire[1].data)

\* C21: of the data returned to a wrapper whose answer mirrors the tags of
\* the submitted action, the predicate named after the wrapper's operation
\* is true and every other predicate is false.
C21_WrapperPredicatePaired ==
    MirroredAnswer =>
        \A h \in MutationResponseHelpers :
            call.helpers[h] = IF h = PredicateOf(call.op) THEN "true" ELSE "false"

\* addTimeSeriesRecord got {MarketTimeSeries: {AddRecord: id}} back and
\* isAddRecord was the one predicate true of it.
C21_Witness ==
    /\ MirroredAnswer
    /\ call.op = "addTimeSeriesRecord"
    /\ NarrowedData = Tagged("MarketTimeSeries", "AddRecord", Str(<<"id-1">>))
    /\ call.helpers["isAddRecord"] = "true"
    /\ call.helpers["isCreateAccount"] = "false"

\* getTimeSeriesRecords has been invoked.
TimeSeriesCall == call.pc # "idle" /\ call.op = "getTimeSeriesRecords"

\* The filter object with end_time taken out and the value of a non-empty
\* start_time replaced by another one.
WithoutTimes(filters) ==
    IF IsPrim(filters) THEN filters
    ELSE [k \in DOMAIN filters |->
            IF k = "end_time" THEN Undefined
            ELSE IF k = "start_time"
                 THEN (IF Truthy(filters[k]) THEN Str(<<"another">>) ELSE Undefined)
                 ELSE filters[k]]

CollectionPath(op) ==
    CASE op = "getMarkets"           -> <<"/", "markets">>
      [] op = "getOrders"            -> <<"/", "orders">>
      [] op = "getTimeSeriesRecords" -> <<"/", "time-series">>

\* The URL contains a "?".
HasQuestionMark(url) == \E i \in 1..Len(url) : url[i] = "?"

\* No declared field of the filter object holds a non-empty value (or there
\* is no filter object).
NothingPresent(op, filters) ==
    \A field \in DeclaredFields(op) : ~Truthy(OptField(filters, field))

\* C24: a filtered read method called without filters, or with filters none
\* of whose fields is present, requests the bare collection path; the path
\* has a "?" if and only if at least one key follows it.
C24_BarePathWithoutKeys ==
    FilteredCall =>
        LET url  == call.wire[1].url
            bare == client.baseURL \o CollectionPath(call.op)
        IN  /\ NothingPresent(call.op, call.args[1]) => url = bare
            /\ HasQuestionMark(url) <=> Len(WirePairs) > 0
            /\ ~HasQuestionMark(url) => url = bare
            /\ HasQuestionMark(url) => Before(url, "?") = bare

\* getOrders was called with filters that hold empty strings only and
\* requested /orders.
C24_Witness ==
    /\ FilteredCall
    /\ call.op = "getOrders"
    /\ IsObject(call.args[1])
    /\ call.args[1].wallet = Str(<<>>)
    /\ NothingPresent(call.op, call.args[1])
    /\ call.wire[1].url = client.baseURL \o <<"/", "orders">>

\* C25 as stated: a filter given to getLendingPools is reflected in the
\* query string of its request, each non-empty field under its name with
\* its value URL-encoded, as for getMarkets and getOrders.
C25_PoolFiltersReflected ==
    call.pc # "idle" /\ call.op = "getLendingPools" /\ Len(call.args) = 1 =>
        \A field \in {"reserve_asset", "min_loan_to_value", "max_loan_to_value"} :
            LET value == OptField(call.args[1], field)
            IN  Truthy(value) =>
                    \E i \in 1..Len(WirePairs) :
                        WirePairs[i] = <<<<field>>, FormEncode(value.v)>>

\* The HTTP call of a method that goes through request ended with a non-2xx
\* status.
Non2xx ==
    /\ ViaRequest
    /\ call.outcome.kind = "rejected"
    /\ IsObject(call.outcome.error.response)

\* C26: on a non-2xx response request returns the body when it is truthy;
\* for an empty or otherwise falsy body (empty string, null, 0) it returns
\* {success: false, data: null, error: <message of the Axios error>}.
C26_FalsyErrorBodyReplaced ==
    Non2xx =>
        LET body == call.outcome.error.response.data
        IN  IF Truthy(body)
            THEN call.result = Resolved(body)
            ELSE call.result =
                    Resolved(ApiResponse(FALSE, Null, call.outcome.error.message))

\* A 404 with an empty body came back as the synthesized envelope with the
\* status message of axios.
C26_Witness ==
    /\ Non2xx
    /\ call.outcome.error.response = [status |-> 404, data |-> Str(<<>>)]
    /\ call.result.value = ApiResponse(FALSE, Null, StatusMessage(404))

\* The HTTP call failed and no response body is passed through: request
\* synthesizes the envelope.
SynthesizedCase ==
    /\ ViaRequest
    /\ call.outcome.kind = "rejected"
    /\ ~(call.outcome.error.type = "AxiosError" /\ Truthy(responseData(call.outcome.error)))

\* C27: the error string of a synthesized envelope is, for an Axios error
\* without response data, its message or 'Request failed' when the message
\* is empty; for another Error, its message as it is, empty or not; for any
\* other thrown value, 'Unknown error occurred'.  Every failure is of
\* exactly one of the three kinds.
C27_ErrorStringOrder ==
    SynthesizedCase =>
        LET error == call.outcome.error
        IN  /\ Cardinality({kind \in {"AxiosError", "Error", "value"} : error.type = kind}) = 1
            /\ call.result.settle = "resolved"
            /\ call.result.value =
                  ApiResponse(FALSE, Null,
                      CASE error.type = "AxiosError" ->
                              IF error.message = Str(<<>>) THEN Str(<<"Request failed">>)
                              ELSE error.message
                        [] error.type = "Error" -> error.message
                        [] error.type = "value" -> Str(<<"Unknown error occurred">>))

\* An Error with an empty message gave an envelope with an empty error
\* string.
C27_Witness ==
    /\ SynthesizedCase
    /\ call.outcome = Thrown(PlainError(Str(<<>>)))
    /\ call.result.value = ApiResponse(FALSE, Null, Str(<<>>))

\* The filter object without the fields that hold the empty string.
WithoutEmpty(filters) ==
    IF IsPrim(filters) THEN filters
    ELSE LET kept == {k \in DOMAIN filters :
                         IF k = "#order" THEN TRUE ELSE filters[k] # Str(<<>>)}
         IN  [k \in kept |-> filters[k]]

\* The declared fields of a filter object that the method reads and that
\* hold a non-empty value.
TruthyFields(op, filters) ==
    {field \in DeclaredFields(op) \ {"end_time"} : Truthy(OptField(filters, field))}

\* C28: a filter field is included by truthiness: the request is the one
\* the same filters give with every field that holds the empty string taken
\* out, and the query has one pair per field with a non-empty value.
C28_EmptyStringLikeAbsent ==
    FilteredCall =>
        /\ call.wire = MethodCall(client, call.op, <<WithoutEmpty(call.args[1])>>)
        /\ Len(WirePairs) = Cardinality(TruthyFields(call.op, call.args[1]))

\* getMarkets with status set to '' and market_type to spot asked for
\* /markets?market_type=spot.
C28_Witness ==
    /\ FilteredCall
    /\ call.op = "getMarkets"
    /\ IsObject(call.args[1])
    /\ "#order" \notin DOMAIN call.args[1]
    /\ call.args[1].status = Str(<<>>)
    /\ call.args[1].market_type = Str(<<"spot">>)
    /\ call.args[1].regulation = Undefined
    /\ call.wire[1].url = client.baseURL
                            \o <<"/", "markets", "?", "market_type", "=", "spot">>

\* A read method that takes identifiers has been invoked.
PathCall == call.pc # "idle" /\ call.op \in PathMethods

\* The sequence s with every token that names a parameter replaced by the
\* tokens of the argument in that position.
RECURSIVE Substitute(_, _)
Substitute(s, a) ==
    IF s = <<>> THEN <<>>
    ELSE (CASE Head(s) = "{1}" -> a[1]
            [] Head(s) = "{2}" -> a[2]
            [] OTHER -> <<Head(s)>>) \o Substitute(Tail(s), a)

\* How often token t occurs in s.
Count(s, t) == Cardinality({i \in 1..Len(s) : s[i] = t})

\* The URL of the method's path template, its parameters left as names.
TemplateUrl(op) == MethodCall(client, op, <<<<"{1}">>, <<"{2}">>>>)[1].url

\* C29: every read method but getLendingPoolByName puts its identifiers into
\* the path template as they are, so a "/", "?" or "#" in an identifier adds
\* a segment, starts a query or starts a fragment; getLendingPoolByName
\* escapes them and its name is always the one segment after /pools/name/.
C29_PathParamsVerbatim ==
    PathCall =>
        LET url == call.wire[1].url
        IN  IF call.op = "getLendingPoolByName"
            THEN LET prefix == client.baseURL \o <<"/", "pools", "/", "name", "/">>
                     seg    == SubSeq(url, Len(prefix) + 1, Len(url))
                 IN  /\ SubSeq(url, 1, Len(prefix)) = prefix
                     /\ seg # <<>>
                     /\ \A i \in 1..Len(seg) : seg[i] \notin {"/", "?", "#"}
                     /\ Len(seg) = Len(call.args[1])
                     /\ \A i \in 1..Len(seg) :
                           \/ seg[i] = call.args[1][i]
                           \/ call.args[1][i] \in {" ", "&", "=", "/", "?", "#", "+", "%", ":"}
            ELSE /\ url = Substitute(TemplateUrl(call.op), call.args)
                 /\ \A t \in {"/", "?", "#"} :
                       Count(url, t) = Count(TemplateUrl(call.op), t)
                            + Count(call.args[1], t)
                            + (IF call.op \in TwoIdMethods THEN Count(call.args[2], t) ELSE 0)

\* getAccount('a/b') asked for /accounts/a/b, or getLendingPoolByName('a/b')
\* for /pools/name/a%2Fb.
C29_Witness ==
    /\ PathCall
    /\ call.args[1] = <<"a", "/", "b">>
    /\ \/ /\ call.op = "getAccount"
          /\ call.wire[1].url = client.baseURL \o <<"/", "accounts", "/", "a", "/", "b">>
          /\ invocations = 1
       \/ /\ call.op = "getLendingPoolByName"
          /\ call.wire[1].url = client.baseURL \o <<"/", "pools", "/", "name", "/", "a", "%2F", "b">>
          /\ invocations = 2

\* C30: the GET of health() carries neither the timeout nor the headers of
\* the client's axios instance, so no timer ends a pending health() call,
\* while a timer is running for every pending call made through request;
\* health() never settles with a timeout, and whatever made its GET fail, it
\* rejects with the same new Error('Health check failed').
C30_HealthOutsideInstance ==
    /\ call.pc # "idle" /\ call.op = "health" =>
          /\ call.wire[1].url = client.baseURL \o <<"/", "health">>
          /\ call.wire[1].timeout = 0
          /\ call.wire[1].Authorization = Undefined
    /\ call.pc = "pending" => (ENABLED Timeout <=> call.op # "health")
    /\ call.pc = "settled" /\ call.op = "health" /\ call.outcome.kind = "rejected" =>
          /\ call.outcome.error.message \notin
                {TimeoutMessage(client.timeout), TimeoutMessage(0)}
          /\ call.result = Rejected(PlainError(Str(<<"Health check failed">>)))

\* A health() call is pending on a client whose other calls time out after
\* 30000 ms, or has failed on a network error and rejected with the fixed
\* Error.
C30_Witness ==
    /\ call.pc # "idle"
    /\ call.op = "health"
    /\ client.timeout = 30000
    /\ \/ call.pc = "pending" /\ ~ENABLED Timeout
       \/ /\ call.pc = "settled"
          /\ call.outcome = Thrown(AxiosError(Str(<<"Network Error">>), Undefined))
          /\ call.result = Rejected(PlainError(Str(<<"Health check failed">>)))

====
